---- MODULE Spec2Model ----
(***************************************************************************)
(* Incremental structure-from-motion pipeline of 3dReconstruction.ipynb:   *)
(* get_matches, triangulation, PnP, common_points, the control loop and    *)
(* to_ply.  Arrays are sequences; index k of a sequence models Python      *)
(* index k-1.                                                              *)
(***************************************************************************)
EXTENDS Integers, Sequences, FiniteSets, TLC

VARIABLES
    \* calls of the pure functions: arguments, result, whether it returned
    cp_args, cp_ret, cp_done,
    pnp_args, pnp_ret, pnp_done,
    ply_args, ply_done,
    re_args, re_ret, re_done,
    gm_args, gm_ret, gm_done,
    ply_file,       \* the file to_ply wrote: header count and vertex lines
    \* the notebook's globals
    decodable,      \* which image paths cv.imread can decode
    small,          \* the image paths whose image has fewer rows and columns
    i, pc, err,     \* loop index, position in the loop body, the exception raised
    image,
    pose_0, pose_1, pose_2,
    feature_0, feature_1, features_cur, features_2,
    points_3d,
    error,          \* the last reprojection error
    calls,          \* the functions called so far in the current iteration
    cm_points_0, cm_points_1, cm_mask_0, cm_mask_1, cm_points_2, cm_points_cur,
    pose_array, total_points, total_colors

cp_vars == <<cp_args, cp_ret, cp_done>>
pnp_vars == <<pnp_args, pnp_ret, pnp_done>>
re_vars == <<re_args, re_ret, re_done>>
gm_vars == <<gm_args, gm_ret, gm_done>>
pose_vars == <<pose_0, pose_1, pose_2>>
feature_vars == <<feature_0, feature_1, features_cur, features_2>>
cm_vars == <<cm_points_0, cm_points_1, cm_mask_0, cm_mask_1, cm_points_2, cm_points_cur>>
acc_vars == <<pose_array, total_points, total_colors>>
loop_vars == <<decodable, small, i, pc, err, image, pose_vars, feature_vars, points_3d,
               error, calls, cm_vars, acc_vars>>
ply_vars == <<ply_args, ply_done, ply_file>>
vars == <<cp_vars, pnp_vars, ply_vars, re_vars, gm_vars, loop_vars>>

(***************************************************************************)
(* Bounds of the model.                                                    *)
(***************************************************************************)
MaxLen1 == 2
MaxLen2 == 3
MaxPnP == 3
MaxCloud == 4
NumImages == 4

\* values a 2D coordinate component takes in the inputs of common_points
CPVals == {1, 2}
CPPoints == CPVals \X CPVals

Range(s) == {s[k] : k \in 1..Len(s)}

SeqUpTo(S, n) == UNION {[1..k -> S] : k \in 0..n}

RECURSIVE SumSeq(_)
SumSeq(s) == IF s = <<>> THEN 0 ELSE Head(s) + SumSeq(Tail(s))

(***************************************************************************)
(* common_points                                                           *)
(***************************************************************************)

\* np.where(image_points_2 == point)[0]: the row index of every ELEMENT of
\* image_points_2 that equals the element of `point` in the same column, in
\* row-major order (a row whose two elements both match is listed twice).
RECURSIVE WhereRows(_, _, _)
WhereRows(image_points_2, point, j) ==
    IF j > Len(image_points_2) THEN <<>>
    ELSE (IF image_points_2[j][1] = point[1] THEN <<j>> ELSE <<>>)
         \o (IF image_points_2[j][2] = point[2] THEN <<j>> ELSE <<>>)
         \o WhereRows(image_points_2, point, j + 1)

\* the for loop of common_points: the pair <<cm_points_1, cm_points_2>>
\* after rows row..N of image_points_1 were scanned
RECURSIVE CommonIndices(_, _, _)
CommonIndices(image_points_1, image_points_2, row) ==
    IF row > Len(image_points_1) THEN <<(<<>>), (<<>>)>>
    ELSE LET a    == WhereRows(image_points_2, image_points_1[row], 1)
             rest == CommonIndices(image_points_1, image_points_2, row + 1)
         IN  IF Len(a) # 0
             THEN <<(<<row>>) \o rest[1], (<<a[1]>>) \o rest[2]>>
             ELSE rest

\* np.ma.array(points, mask=False); mask[index] = True: the mask has one
\* flag per element and a whole row is set for every listed index
RowMask(points, index) ==
    [k \in 1..Len(points) |->
        IF \E n \in 1..Len(index) : index[n] = k
        THEN <<TRUE, TRUE>> ELSE <<FALSE, FALSE>>]

\* .compressed(): the unmasked elements as one flat array
RECURSIVE Compressed(_, _, _)
Compressed(points, mask, k) ==
    IF k > Len(points) THEN <<>>
    ELSE (IF mask[k][1] THEN <<>> ELSE <<points[k][1]>>)
         \o (IF mask[k][2] THEN <<>> ELSE <<points[k][2]>>)
         \o Compressed(points, mask, k + 1)

\* .reshape(int(shape[0] / 2), 2)
Reshape2(flat) ==
    [k \in 1..(Len(flat) \div 2) |-> <<flat[2 * k - 1], flat[2 * k]>>]

\* the masked array of `points` with the rows `index` masked, compressed
\* and reshaped
MaskedRows(points, index) ==
    Reshape2(Compressed(points, RowMask(points, index), 1))

common_points_masks_first_list(image_points_1, image_points_2, image_points_3) ==
    LET cm == CommonIndices(image_points_1, image_points_2, 1)
    IN  [cm_points_1  |-> cm[1],
         cm_points_2  |-> cm[2],
         mask_array_1 |-> MaskedRows(image_points_2, cm[2]),
         mask_array_2 |-> MaskedRows(image_points_3, cm[1])]

\* common_points(image_points_1, image_points_2, image_points_3)
common_points(image_points_1, image_points_2, image_points_3) ==
    LET cm == CommonIndices(image_points_1, image_points_2, 1)
    IN  [cm_points_1  |-> cm[1],
         cm_points_2  |-> cm[2],
         mask_array_1 |-> MaskedRows(image_points_2, cm[2]),
         mask_array_2 |-> MaskedRows(image_points_3, cm[2])]

(***************************************************************************)
(* Floating point values: a finite number, an infinity or a NaN.           *)
(***************************************************************************)
Num(n) == <<"num", n>>
Inf == <<"inf", 0>>
NaN == <<"nan", 0>>
IsFinite(f) == f[1] = "num"

\* numpy division of the finite value x by the finite value w
FDiv(x, w) ==
    IF w = 0 THEN (IF x = 0 THEN NaN ELSE Inf) ELSE Num(x \div w)

\* product of two floating point values
FMul(f, g) ==
    IF f = NaN \/ g = NaN THEN NaN
    ELSE IF f = Inf \/ g = Inf
         THEN (IF f = Num(0) \/ g = Num(0) THEN NaN ELSE Inf)
         ELSE Num(f[2] * g[2])

\* 1 / w for a floating point value w that is not zero
FInv(w) == IF w = NaN THEN NaN ELSE IF w = Inf THEN Num(0) ELSE FDiv(1, w[2])

\* the largest r with r * r <= n, for lo * lo <= n < hi * hi
RECURSIVE SqrtBetween(_, _, _)
SqrtBetween(n, lo, hi) ==
    IF hi - lo <= 1 THEN lo
    ELSE LET mid == (lo + hi) \div 2
         IN  IF mid * mid <= n THEN SqrtBetween(n, mid, hi) ELSE SqrtBetween(n, lo, mid)

\* np.sqrt of a whole number: exact for a perfect square, rounded down otherwise
Sqrt(n) == SqrtBetween(n, 0, IF n < 46339 THEN n + 1 ELSE 46340)

\* array.T of an N x 2 array (rows) and of a 2 x N array
TransposeNx2(m) == <<[k \in 1..Len(m) |-> m[k][1]], [k \in 1..Len(m) |-> m[k][2]]>>
Transpose2xN(m) == [k \in 1..Len(m[1]) |-> <<m[1][k], m[2][k]>>]

(***************************************************************************)
(* triangulation                                                           *)
(***************************************************************************)

\* the 4th homogeneous coordinates cv.triangulatePoints can produce
HomW == {0, 1}

\* cv.triangulatePoints(P1, P2, pts1, pts2) for 2 x N arrays pts1, pts2: the
\* possible 4 x N results, as the sequence of their N columns <<x, y, z, w>>
TriangulatePoints(pts1, pts2) ==
    {[k \in 1..Len(pts1[1]) |-> <<pts1[1][k], pts1[2][k], 1, w[k]>>] :
        w \in [1..Len(pts1[1]) -> HomW]}

\* pt_cloud / pt_cloud[3]: every column divided by its own 4th coordinate
DivideByW(pt_cloud) ==
    [k \in 1..Len(pt_cloud) |->
        <<FDiv(pt_cloud[k][1], pt_cloud[k][4]), FDiv(pt_cloud[k][2], pt_cloud[k][4]),
          FDiv(pt_cloud[k][3], pt_cloud[k][4]), FDiv(pt_cloud[k][4], pt_cloud[k][4])>>]

\* triangulation(point_2d_1, point_2d_2, projection_matrix_1,
\* projection_matrix_2), called with the poses first and the N x 2 point
\* arrays last; pt_cloud is the result of cv.triangulatePoints
triangulation(point_2d_1, point_2d_2, projection_matrix_1, projection_matrix_2, pt_cloud) ==
    <<TransposeNx2(projection_matrix_1), TransposeNx2(projection_matrix_2),
      DivideByW(pt_cloud)>>

\* cv.convertPointsFromHomogeneous of N points <<x, y, z, w>>: N x 1 x 3,
\* scale = (w != 0) ? 1 / w : 1
ConvertPointsFromHomogeneous(src) ==
    [k \in 1..Len(src) |->
        LET scale == IF src[k][4] # Num(0) THEN FInv(src[k][4]) ELSE Num(1)
        IN  << <<FMul(src[k][1], scale), FMul(src[k][2], scale), FMul(src[k][3], scale)>> >>]

\* array[:, 0, :]
Squeeze(a) == [k \in 1..Len(a) |-> a[k][1]]

\* array[index] for an index array
Take(array, index) == [k \in 1..Len(index) |-> array[index[k]]]

(***************************************************************************)
(* PnP                                                                     *)
(***************************************************************************)

\* strictly increasing index lists over 1..n, without the empty one
RECURSIVE IncreasingFrom(_, _)
IncreasingFrom(lo, n) ==
    IF lo > n THEN {<<>>}
    ELSE IncreasingFrom(lo + 1, n)
         \cup {<<lo>> \o s : s \in IncreasingFrom(lo + 1, n)}

\* what cv.solvePnPRansac does with n correspondences: it raises, it ends
\* without a consensus set (inlier is None, the pose is whatever the output
\* buffers held), or it returns a pose with the indices of its inliers
SolvePnPRansac(n) ==
    {[raised |-> TRUE, found |-> FALSE, inlier |-> <<>>, pose |-> "none"],
     [raised |-> FALSE, found |-> FALSE, inlier |-> <<>>, pose |-> "arbitrary"]}
    \cup {[raised |-> FALSE, found |-> TRUE, inlier |-> s, pose |-> "estimated"] :
              s \in IncreasingFrom(1, n) \ {<<>>}}

PnPUnfilteredAux(obj_point, image_point, rot_vector, solved) ==
    [raised      |-> solved.raised,
     pose        |-> solved.pose,
     image_point |-> IF solved.found THEN Take(image_point, solved.inlier) ELSE image_point,
     obj_point   |-> IF solved.found THEN Take(obj_point, solved.inlier) ELSE obj_point,
     rot_vector  |-> rot_vector]

\* PnP(obj_point, image_point, K, rot_vector); solved is the result of
\* cv.solvePnPRansac.  pose stands for the pair rot_matrix, tran_vector.
PnP(obj_point, image_point, rot_vector, solved) ==
    [raised      |-> solved.raised,
     pose        |-> solved.pose,
     image_point |-> IF solved.found THEN Take(image_point, solved.inlier) ELSE image_point,
     obj_point   |-> IF solved.found THEN Take(obj_point, solved.inlier) ELSE obj_point,
     rot_vector  |-> IF solved.found THEN Take(rot_vector, solved.inlier) ELSE rot_vector]

(***************************************************************************)
(* reprojection_error                                                      *)
(***************************************************************************)

\* image_points_calc - image_points: how far cv.projectPoints can put a
\* projected point from the observed one (distances 0, 3 and 4)
ProjOffsets == {<<0, 0>>, <<3, 0>>, <<0, 4>>}

\* cv.projectPoints(obj_points, rot_vector, tran_vector, K, None)[0][:, 0, :]
\* for points observed at `observed`: the possible N x 2 results
ProjectPoints(obj_points, observed) ==
    {[k \in 1..Len(obj_points) |->
         <<observed[k][1] + o[k][1], observed[k][2] + o[k][2]>>] :
        o \in [1..Len(obj_points) -> ProjOffsets]}

\* cv.norm(a, b, cv.NORM_L2) of two N x 2 arrays: the square root of the sum
\* of the squared differences of ALL their elements
NormL2(a, b) ==
    Sqrt(SumSeq([k \in 1..Len(a) |->
                    (a[k][1] - b[k][1]) * (a[k][1] - b[k][1])
                    + (a[k][2] - b[k][2]) * (a[k][2] - b[k][2])]))

\* the value total_error / len(image_points_calc), kept as its two operands
NoError == [total_error |-> Num(0), len |-> 0]

\* reprojection_error(obj_points, image_points, transform_matrix, K,
\* homogenity); image_points_calc is the result of cv.projectPoints.  A
\* point that is not finite makes the norm a NaN; with no point the call
\* ends in an exception, at the latest in the division by len(...) = 0.
reprojection_error(obj_points, image_points, homogenity, image_points_calc) ==
    LET obj      == IF homogenity = 1 THEN ConvertPointsFromHomogeneous(obj_points)
                    ELSE obj_points
        rows     == IF homogenity = 1 THEN Squeeze(obj) ELSE obj
        observed == IF homogenity = 1 THEN Transpose2xN(image_points) ELSE image_points
        total_error == IF \A k \in 1..Len(rows) : \A c \in 1..3 : IsFinite(rows[k][c])
                       THEN Num(NormL2(image_points_calc, observed)) ELSE NaN
    IN  IF Len(image_points_calc) = 0
        THEN [raised |-> TRUE, error |-> NoError, obj_points |-> obj]
        ELSE [raised |-> FALSE,
              error |-> [total_error |-> total_error, len |-> Len(image_points_calc)],
              obj_points |-> obj]

(***************************************************************************)
(* get_matches                                                             *)
(***************************************************************************)

\* the number of rows and of columns of an image, and of a smaller image
ImageSize == 3
SmallSize == 2

\* cv.imread(image_paths[k]): None when the file cannot be decoded
Imread(k) ==
    [ok |-> decodable[k], path |-> k, size |-> IF k \in small THEN SmallSize ELSE ImageSize]

\* whether img[row, col] lies inside the image (numpy raises IndexError
\* otherwise); the model has no negative index
InImage(img, row, col) == row < img.size /\ col < img.size

\* the pixel img[row, col] of a decoded image: its three channel values
PixelAt(img, row, col) == <<img.path, row, col>>

\* sift.detectAndCompute: the keypoint positions found in image k, all of
\* them inside the image.  In the images with an even index the two
\* keypoints share their x value.
Keypoints(k) ==
    IF k \in small THEN <<(<<1, 1>>), (<<1, 0>>)>>
    ELSE IF k % 2 = 0 THEN <<(<<1, 1>>), (<<1, 2>>)>> ELSE <<(<<1, 1>>), (<<2, 2>>)>>

\* distances <<best, second best>> of a match: one passes the ratio test,
\* one lies exactly on 0.7 * second best
DistPairs == {<<6, 10>>, <<7, 10>>}

\* flann.knnMatch(des1, des2, k=2): one entry per query descriptor
KnnMatch(kp1, kp2) ==
    [1..Len(kp1) ->
        {[trainIdx |-> t, distance |-> d[1], second |-> d[2]] :
            t \in 1..Len(kp2), d \in DistPairs}]

\* the matches of the control loop's images: keypoint j of every image is the
\* projection of scene point j, the best match of a keypoint is the keypoint
\* of the same scene point, and the distances decide the ratio test
SceneMatches(kp1, kp2) ==
    {matches \in KnnMatch(kp1, kp2) : \A j \in 1..Len(kp1) : matches[j].trainIdx = j}

RatioTestInclusive(m) == 10 * m.distance <= 7 * m.second

\* the ratio test m.distance < 0.7 * n.distance
RatioTest(m) == 10 * m.distance < 7 * m.second

\* the second loop of get_matches from match j on: the four parallel lists
RECURSIVE CollectMatches(_, _, _, _, _, _)
CollectMatches(img1, img2, kp1, kp2, matches, j) ==
    IF j > Len(matches)
    THEN [a |-> <<>>, b |-> <<>>, colors_a |-> <<>>, colors_b |-> <<>>]
    ELSE LET rest    == CollectMatches(img1, img2, kp1, kp2, matches, j + 1)
             point_a == kp1[j]
             point_b == kp2[matches[j].trainIdx]
         IN  IF RatioTest(matches[j])
             THEN [a        |-> <<point_a>> \o rest.a,
                   b        |-> <<point_b>> \o rest.b,
                   colors_a |-> <<PixelAt(img1, point_a[2], point_a[1])>> \o rest.colors_a,
                   colors_b |-> <<PixelAt(img2, point_b[2], point_b[1])>> \o rest.colors_b]
             ELSE rest

\* get_matches(path1, path2): none stands for the bare `return` after
\* print(f"Error reading images"), a message without a placeholder: it
\* names no path
get_matches(path1, path2, matches) ==
    LET img1 == Imread(path1)
        img2 == Imread(path2)
    IN  IF ~img1.ok \/ ~img2.ok
        THEN [none |-> TRUE, printed |-> "Error reading images", named |-> {},
              a |-> <<>>, b |-> <<>>, colors_a |-> <<>>, colors_b |-> <<>>]
        ELSE [none |-> FALSE, printed |-> "", named |-> {}]
             @@ CollectMatches(img1, img2, Keypoints(path1), Keypoints(path2), matches, 1)

(***************************************************************************)
(* common_points and PnP called on their own                               *)
(***************************************************************************)
NoCPResult ==
    [cm_points_1 |-> <<>>, cm_points_2 |-> <<>>,
     mask_array_1 |-> <<>>, mask_array_2 |-> <<>>]

\* rows of the third array: parallel to the second, every row different
ThirdRows(M) == [k \in 1..M |-> <<k + 2, k + 2>>]

IdleCP == cp_args = <<(<<>>), (<<>>), (<<>>)>> /\ cp_ret = NoCPResult /\ cp_done = FALSE

CallCommonPoints ==
    /\ ~cp_done
    /\ cp_ret' = common_points(cp_args[1], cp_args[2], cp_args[3])
    /\ cp_done' = TRUE
    /\ UNCHANGED <<cp_args, pnp_vars, ply_vars, re_vars, gm_vars, loop_vars>>

NoSolve == [raised |-> FALSE, found |-> FALSE, inlier |-> <<>>, pose |-> "none"]
NoPnPResult ==
    [raised |-> FALSE, pose |-> "none", image_point |-> <<>>, obj_point |-> <<>>,
     rot_vector |-> <<>>]

IdlePnP ==
    /\ pnp_args = [obj_point |-> <<>>, image_point |-> <<>>, rot_vector |-> <<>>,
                   solved |-> NoSolve]
    /\ pnp_ret = NoPnPResult
    /\ pnp_done = FALSE

\* rows the arguments of PnP are drawn from
PnPObjRows == {<<1, 1, 1>>, <<2, 2, 1>>}
PnPImageRows == {<<1, 1>>, <<2, 2>>}
PnPAuxRows == {<<1, 2>>, <<2, 1>>}

CallPnP ==
    /\ ~pnp_done
    /\ \E solved \in SolvePnPRansac(Len(pnp_args.obj_point)) :
          /\ pnp_args' = [pnp_args EXCEPT !.solved = solved]
          /\ pnp_ret' = PnP(pnp_args.obj_point, pnp_args.image_point,
                            pnp_args.rot_vector, solved)
    /\ pnp_done' = TRUE
    /\ UNCHANGED <<cp_vars, ply_vars, re_vars, gm_vars, loop_vars>>

\* get_matches called on its own
NoMatches ==
    [none |-> FALSE, printed |-> "", named |-> {},
     a |-> <<>>, b |-> <<>>, colors_a |-> <<>>, colors_b |-> <<>>]

IdleGM ==
    /\ gm_args = [path1 |-> 0, path2 |-> 0, matches |-> <<>>]
    /\ gm_ret = NoMatches
    /\ gm_done = FALSE

CallGetMatches ==
    /\ ~gm_done
    /\ gm_ret' = get_matches(gm_args.path1, gm_args.path2, gm_args.matches)
    /\ gm_done' = TRUE
    /\ UNCHANGED <<gm_args, cp_vars, pnp_vars, ply_vars, re_vars, loop_vars>>

\* reprojection_error called on its own
MaxRE == 2

IdleRE ==
    /\ re_args = [obj_points |-> <<>>, image_points |-> <<>>, homogenity |-> 0,
                  image_points_calc |-> <<>>]
    /\ re_ret = [raised |-> FALSE, error |-> NoError, obj_points |-> <<>>]
    /\ re_done = FALSE

\* the points the arguments of reprojection_error are drawn from: N x 3
\* rows, or the columns of a 4 x N array when homogenity = 1
REObjRows == {<<Num(1), Num(1), Num(1)>>, <<NaN, NaN, NaN>>}
REObjColumns == {<<Num(2), Num(2), Num(2), Num(1)>>, <<NaN, NaN, NaN, NaN>>}
REImageRows == {<<1, 1>>, <<2, 5>>}

\* the N x 2 observations of the call, whatever the layout of the argument
REObserved ==
    IF re_args.homogenity = 1 THEN Transpose2xN(re_args.image_points)
    ELSE re_args.image_points

CallReprojectionError ==
    /\ ~re_done
    /\ \E calc \in ProjectPoints(re_args.obj_points, REObserved) :
          /\ re_args' = [re_args EXCEPT !.image_points_calc = calc]
          /\ re_ret' = reprojection_error(re_args.obj_points, re_args.image_points,
                                          re_args.homogenity, calc)
    /\ re_done' = TRUE
    /\ UNCHANGED <<cp_vars, pnp_vars, ply_vars, gm_vars, loop_vars>>

(***************************************************************************)
(* to_ply                                                                  *)
(***************************************************************************)
ScaleFactor == 200
ColorScale == 255
DistOffset == 300

\* out_points = point_cloud.reshape(-1, 3) * 200
ScalePoints(point_cloud) ==
    [k \in 1..Len(point_cloud) |->
        <<FMul(point_cloud[k][1], Num(ScaleFactor)), FMul(point_cloud[k][2], Num(ScaleFactor)),
          FMul(point_cloud[k][3], Num(ScaleFactor))>>]

\* out_colors = (colors.reshape(-1, 3) * 255).astype(np.uint8)
ConvertColors(colors) ==
    [k \in 1..Len(colors) |->
        <<(colors[k][1] * ColorScale) % 256, (colors[k][2] * ColorScale) % 256,
          (colors[k][3] * ColorScale) % 256>>]

AllFinite(points) ==
    \A k \in 1..Len(points) : \A c \in 1..3 : IsFinite(points[k][c])

\* dist, multiplied by the number N of points so that it stays a whole
\* number: N * (verts[k, :3] - mean) = N * verts[k, :3] - sum of the rows
ScaledDist(out_points) ==
    LET N      == Len(out_points)
        sum(c) == SumSeq([k \in 1..N |-> out_points[k][c][2]])
        d(k, c) == N * out_points[k][c][2] - sum(c)
    IN  [k \in 1..N |-> Sqrt(d(k, 1) * d(k, 1) + d(k, 2) * d(k, 2) + d(k, 3) * d(k, 3))]

KeepsBoundary(dist, k) ==
    Len(dist) * dist[k] <= SumSeq(dist) + DistOffset * Len(dist) * Len(dist)

\* dist[k] < np.mean(dist) + 300, for dist multiplied by N: both sides of
\* the comparison are multiplied by N * N
Keeps(dist, k) ==
    Len(dist) * dist[k] < SumSeq(dist) + DistOffset * Len(dist) * Len(dist)

RECURSIVE WhereKept(_, _)
WhereKept(dist, k) ==
    IF k > Len(dist) THEN <<>>
    ELSE (IF Keeps(dist, k) THEN <<k>> ELSE <<>>) \o WhereKept(dist, k + 1)

\* indx = np.where(dist < np.mean(dist) + 300): a comparison with a NaN is
\* false, and one row that is not finite makes the mean, and with it every
\* distance, not finite
FilterIndex(out_points) ==
    IF AllFinite(out_points) THEN WhereKept(ScaledDist(out_points), 1) ELSE <<>>

WritePlyUnfilteredCount(verts, indx) ==
    [raised |-> FALSE, vert_num |-> Len(verts), lines |-> Take(verts, indx)]

\* verts = verts[indx]; f.write(ply_header % dict(vert_num=len(verts)));
\* np.savetxt(f, verts, ...): one line per row
WritePly(verts, indx) ==
    [raised |-> FALSE, vert_num |-> Len(Take(verts, indx)), lines |-> Take(verts, indx)]

NoFile == [raised |-> FALSE, vert_num |-> 0, lines |-> <<>>]

\* to_ply(path, point_cloud, colors); np.hstack raises when the two arrays
\* differ in their number of rows
to_ply(point_cloud, colors) ==
    LET out_points == ScalePoints(point_cloud)
        out_colors == ConvertColors(colors)
        verts      == [k \in 1..Len(out_points) |-> out_points[k] \o out_colors[k]]
    IN  IF Len(out_points) # Len(out_colors)
        THEN [raised |-> TRUE, vert_num |-> 0, lines |-> <<>>]
        ELSE WritePly(verts, FilterIndex(out_points))

\* the clouds to_ply is called with on its own: points on the x axis and a
\* point that is not finite
PlyXs == {0, 4, 5}
PlyPoints == {<<Num(x), Num(0), Num(0)>> : x \in PlyXs} \cup {<<NaN, NaN, NaN>>}
PlyColors == {<<0, 1, 2>>, <<255, 128, 3>>}

IdlePly ==
    /\ ply_args = [point_cloud |-> <<>>, colors |-> <<>>]
    /\ ply_done = FALSE
    /\ ply_file = NoFile

CallToPly ==
    /\ ~ply_done
    /\ ply_file' = to_ply(ply_args.point_cloud, ply_args.colors)
    /\ ply_done' = TRUE
    /\ UNCHANGED <<ply_args, cp_vars, pnp_vars, re_vars, gm_vars, loop_vars>>

(***************************************************************************)
(* The notebook: two-view initialisation, then the control loop            *)
(***************************************************************************)
\* the exception that ended the cell, what was printed before it, and the
\* image paths that the message or the exception names
NoErr == [type |-> "", printed |-> "", named |-> {}]
Unset == <<>>

\* a projection matrix K [R|t]: the image it was estimated for and how
Pose(view, kind) == [view |-> view, kind |-> kind]

\* the images that may be smaller than the others
SmallImages == {2}

IdleLoop ==
    /\ decodable = [k \in 0..(NumImages - 1) |-> TRUE]
    /\ small = {}
    /\ i = 0 /\ pc = "idle" /\ err = NoErr
    /\ image = Imread(0)
    /\ pose_0 = Pose(0, "identity") /\ pose_1 = Pose(0, "none") /\ pose_2 = Pose(0, "none")
    /\ feature_0 = Unset /\ feature_1 = Unset /\ features_cur = Unset /\ features_2 = Unset
    /\ points_3d = Unset /\ error = NoError /\ calls = <<>>
    /\ cm_points_0 = Unset /\ cm_points_1 = Unset /\ cm_mask_0 = Unset /\ cm_mask_1 = Unset
    /\ cm_points_2 = Unset /\ cm_points_cur = Unset
    /\ pose_array = <<>> /\ total_points = <<>> /\ total_colors = <<>>

\* the state after the cells before the loop ran without an exception:
\* get_matches on images 0 and 1, the two inlier masks, the first
\* triangulation, and the accumulators set from them
InitLoop ==
    /\ decodable \in [0..(NumImages - 1) -> BOOLEAN]
    /\ decodable[0] /\ decodable[1]
    /\ small \in SUBSET SmallImages
    /\ i = 0 /\ pc = "imread" /\ err = NoErr
    /\ image = Imread(0)
    /\ pose_0 = Pose(0, "identity") /\ pose_1 = Pose(1, "estimated") /\ pose_2 = Pose(0, "none")
    /\ \E matches \in SceneMatches(Keypoints(0), Keypoints(1)) :
          LET r == get_matches(0, 1, matches)
          IN  \E em_mask \in IncreasingFrom(1, Len(r.a)) \ {<<>>} :
                 /\ feature_0 = Take(r.a, em_mask)
                 /\ feature_1 = Take(r.b, em_mask)
                 /\ total_colors = Take(r.colors_b, em_mask)
    /\ \E pt_cloud \in TriangulatePoints(TransposeNx2(feature_0), TransposeNx2(feature_1)) :
          points_3d = Squeeze(ConvertPointsFromHomogeneous(
                          triangulation(pose_0, pose_1, feature_0, feature_1, pt_cloud)[3]))
    /\ features_cur = Unset /\ features_2 = Unset /\ error = NoError /\ calls = <<>>
    /\ cm_points_0 = Unset /\ cm_points_1 = Unset /\ cm_mask_0 = Unset /\ cm_mask_1 = Unset
    /\ cm_points_2 = Unset /\ cm_points_cur = Unset
    /\ pose_array = <<Pose(0, "K")>>
    /\ total_points = points_3d

\* an exception ends the cell: nothing after the raising statement runs
Raise(type, printed, named) ==
    /\ pc' = "failed"
    /\ err' = [type |-> type, printed |-> printed, named |-> named]

\* image = cv.imread(image_paths[i + 1])
ReadImage ==
    /\ pc = "imread"
    /\ image' = Imread(i + 1)
    /\ pc' = "match01"
    /\ UNCHANGED <<decodable, small, i, error, err, pose_vars, feature_vars, points_3d, cm_vars, acc_vars>>
    /\ UNCHANGED <<cp_vars, pnp_vars, ply_vars, re_vars, gm_vars, calls>>

\* feature_0, feature_1, _, _ = get_matches(image_paths[i], image_paths[i+1])
MatchPrev ==
    /\ pc = "match01"
    /\ \E matches \in SceneMatches(Keypoints(i), Keypoints(i + 1)) :
          LET r == get_matches(i, i + 1, matches)
          IN  IF r.none
              THEN /\ Raise("TypeError", r.printed, r.named)
                   /\ UNCHANGED <<feature_0, feature_1>>
              ELSE /\ feature_0' = r.a
                   /\ feature_1' = r.b
                   /\ pc' = "tri01"
                   /\ UNCHANGED err
    /\ UNCHANGED <<decodable, small, i, error, image, pose_vars, features_cur, features_2, points_3d,
                   cm_vars, acc_vars>>
    /\ calls' = Append(calls, "get_matches")
    /\ UNCHANGED <<cp_vars, pnp_vars, ply_vars, re_vars, gm_vars>>

\* feature_0, feature_1, points_3d = triangulation(pose_0, pose_1, feature_0,
\* feature_1); feature_1 = feature_1.T
TriangulatePrev ==
    /\ pc = "tri01"
    /\ \E pt_cloud \in TriangulatePoints(TransposeNx2(feature_0), TransposeNx2(feature_1)) :
          LET t == triangulation(pose_0, pose_1, feature_0, feature_1, pt_cloud)
          IN  /\ feature_0' = t[1]
              /\ feature_1' = Transpose2xN(t[2])
              /\ points_3d' = t[3]
    /\ pc' = "match12"
    /\ UNCHANGED <<decodable, small, i, error, err, image, pose_vars, features_cur, features_2,
                   cm_vars, acc_vars>>
    /\ calls' = Append(calls, "triangulation")
    /\ UNCHANGED <<cp_vars, pnp_vars, ply_vars, re_vars, gm_vars>>

\* features_cur, features_2, _, _ = get_matches(image_paths[i+1], image_paths[i+2])
MatchNext ==
    /\ pc = "match12"
    /\ \E matches \in SceneMatches(Keypoints(i + 1), Keypoints(i + 2)) :
          LET r == get_matches(i + 1, i + 2, matches)
          IN  IF r.none
              THEN /\ Raise("TypeError", r.printed, r.named)
                   /\ UNCHANGED <<features_cur, features_2>>
              ELSE /\ features_cur' = r.a
                   /\ features_2' = r.b
                   /\ pc' = "convert"
                   /\ UNCHANGED err
    /\ UNCHANGED <<decodable, small, i, error, image, pose_vars, feature_0, feature_1, points_3d,
                   cm_vars, acc_vars>>
    /\ calls' = Append(calls, "get_matches")
    /\ UNCHANGED <<cp_vars, pnp_vars, ply_vars, re_vars, gm_vars>>

\* points_3d = cv.convertPointsFromHomogeneous(points_3d.T)[:, 0, :]
ConvertPoints ==
    /\ pc = "convert"
    /\ points_3d' = Squeeze(ConvertPointsFromHomogeneous(points_3d))
    /\ pc' = "common"
    /\ UNCHANGED <<decodable, small, i, error, err, image, pose_vars, feature_vars, cm_vars, acc_vars>>
    /\ UNCHANGED <<cp_vars, pnp_vars, ply_vars, re_vars, gm_vars, calls>>

\* cm_points_0, cm_points_1, cm_mask_0, cm_mask_1 =
\*     common_points(feature_1, features_cur, features_2)
TrackCommon ==
    /\ pc = "common"
    /\ LET c == common_points(feature_1, features_cur, features_2)
       IN  /\ cm_points_0' = c.cm_points_1
           /\ cm_points_1' = c.cm_points_2
           /\ cm_mask_0' = c.mask_array_1
           /\ cm_mask_1' = c.mask_array_2
    /\ pc' = "select"
    /\ UNCHANGED <<decodable, small, i, error, err, image, pose_vars, feature_vars, points_3d,
                   cm_points_2, cm_points_cur, acc_vars>>
    /\ calls' = Append(calls, "common_points")
    /\ UNCHANGED <<cp_vars, pnp_vars, ply_vars, re_vars, gm_vars>>

\* cm_points_2 = features_2[cm_points_1]; cm_points_cur = features_cur[cm_points_1]
\* (an empty cm_points_1 is a float array, which numpy refuses as an index)
SelectTracked ==
    /\ pc = "select"
    /\ IF cm_points_1 = <<>>
       THEN /\ Raise("IndexError", "", {})
            /\ UNCHANGED <<cm_points_2, cm_points_cur>>
       ELSE /\ cm_points_2' = Take(features_2, cm_points_1)
            /\ cm_points_cur' = Take(features_cur, cm_points_1)
            /\ pc' = "pnp"
            /\ UNCHANGED err
    /\ UNCHANGED <<decodable, small, i, error, image, pose_vars, feature_vars, points_3d,
                   cm_points_0, cm_points_1, cm_mask_0, cm_mask_1, acc_vars>>
    /\ UNCHANGED <<cp_vars, pnp_vars, ply_vars, re_vars, gm_vars, calls>>

\* rot_matrix, tran_matrix, cm_points_2, points_3d, cm_points_cur = PnP(...);
\* transform_matrix_1 = np.hstack(...); pose_2 = np.matmul(K, transform_matrix_1)
RegisterPose ==
    /\ pc = "pnp"
    /\ \E solved \in SolvePnPRansac(Len(cm_points_0)) :
          LET r == PnP(Take(points_3d, cm_points_0), cm_points_2, cm_points_cur, solved)
          IN  IF r.raised
              THEN /\ Raise("cv2.error", "", {})
                   /\ UNCHANGED <<cm_points_2, points_3d, cm_points_cur, pose_2>>
              ELSE /\ cm_points_2' = r.image_point
                   /\ points_3d' = r.obj_point
                   /\ cm_points_cur' = r.rot_vector
                   /\ pose_2' = Pose(i + 2, r.pose)
                   /\ pc' = "reproj1"
                   /\ UNCHANGED err
    /\ UNCHANGED <<decodable, small, i, error, image, pose_0, pose_1, feature_vars,
                   cm_points_0, cm_points_1, cm_mask_0, cm_mask_1, acc_vars>>
    /\ calls' = Append(calls, "PnP")
    /\ UNCHANGED <<cp_vars, pnp_vars, ply_vars, re_vars, gm_vars>>

\* error, points_3d = reprojection_error(points_3d, cm_points_2, ..., homogenity=0)
EvaluateRegistration ==
    /\ pc = "reproj1"
    /\ \E calc \in ProjectPoints(points_3d, cm_points_2) :
          LET r == reprojection_error(points_3d, cm_points_2, 0, calc)
          IN  IF r.raised
              THEN /\ Raise("ZeroDivisionError", "", {})
                   /\ UNCHANGED <<error, points_3d>>
              ELSE /\ error' = r.error
                   /\ points_3d' = r.obj_points
                   /\ pc' = "tri12"
                   /\ UNCHANGED err
    /\ UNCHANGED <<decodable, small, i, image, pose_vars, feature_vars, cm_vars, acc_vars>>
    /\ calls' = Append(calls, "reprojection_error")
    /\ UNCHANGED <<cp_vars, pnp_vars, ply_vars, re_vars, gm_vars>>

\* cm_mask_0, cm_mask_1, points_3d = triangulation(pose_1, pose_2, cm_mask_0, cm_mask_1)
TriangulateNew ==
    /\ pc = "tri12"
    /\ \E pt_cloud \in TriangulatePoints(TransposeNx2(cm_mask_0), TransposeNx2(cm_mask_1)) :
          LET t == triangulation(pose_1, pose_2, cm_mask_0, cm_mask_1, pt_cloud)
          IN  /\ cm_mask_0' = t[1]
              /\ cm_mask_1' = t[2]
              /\ points_3d' = t[3]
    /\ pc' = "reproj2"
    /\ UNCHANGED <<decodable, small, i, error, err, image, pose_vars, feature_vars,
                   cm_points_0, cm_points_1, cm_points_2, cm_points_cur, acc_vars>>
    /\ calls' = Append(calls, "triangulation")
    /\ UNCHANGED <<cp_vars, pnp_vars, ply_vars, re_vars, gm_vars>>

\* error, points_3d = reprojection_error(points_3d, cm_mask_1, ..., homogenity=1):
\* points_3d becomes cv.convertPointsFromHomogeneous(points_3d.T); with no
\* point left the call ends in an exception (at the latest the division by
\* len(image_points_calc))
EvaluateNew ==
    /\ pc = "reproj2"
    /\ \E calc \in ProjectPoints(points_3d, Transpose2xN(cm_mask_1)) :
          LET r == reprojection_error(points_3d, cm_mask_1, 1, calc)
          IN  IF r.raised
              THEN /\ Raise("ZeroDivisionError", "", {})
                   /\ UNCHANGED <<error, points_3d>>
              ELSE /\ error' = r.error
                   /\ points_3d' = r.obj_points
                   /\ pc' = "append_pose"
                   /\ UNCHANGED err
    /\ UNCHANGED <<decodable, small, i, image, pose_vars, feature_vars, cm_vars, acc_vars>>
    /\ calls' = Append(calls, "reprojection_error")
    /\ UNCHANGED <<cp_vars, pnp_vars, ply_vars, re_vars, gm_vars>>

\* pose_array = np.hstack((pose_array, pose_2.ravel()))
AppendPose ==
    /\ pc = "append_pose"
    /\ pose_array' = Append(pose_array, pose_2)
    /\ pc' = "append_points"
    /\ UNCHANGED <<decodable, small, i, error, err, image, pose_vars, feature_vars, points_3d, cm_vars,
                   total_points, total_colors>>
    /\ calls' = Append(calls, "append")
    /\ UNCHANGED <<cp_vars, pnp_vars, ply_vars, re_vars, gm_vars>>

StackPointsReplace(total, new) == Squeeze(new)
StackPointsInFront(total, new) == Squeeze(new) \o total

\* the rows np.vstack((total_points, points_3d[:, 0, :])) holds
StackPoints(total, new) == total \o Squeeze(new)

\* total_points = np.vstack((total_points, points_3d[:, 0, :]))
AppendPoints ==
    /\ pc = "append_points"
    /\ total_points' = StackPoints(total_points, points_3d)
    /\ pc' = "append_colors"
    /\ UNCHANGED <<decodable, small, i, error, err, image, pose_vars, feature_vars, points_3d, cm_vars,
                   pose_array, total_colors>>
    /\ calls' = Append(calls, "append")
    /\ UNCHANGED <<cp_vars, pnp_vars, ply_vars, re_vars, gm_vars>>

ColorVectorDroppingLast(img, points_left) ==
    LET rows == Transpose2xN(points_left)
    IN  [k \in 1..(Len(rows) - 1) |-> PixelAt(img, rows[k][2], rows[k][1])]

\* points_left = np.array(cm_mask_1, dtype=np.int32) (the model's coordinates
\* are whole numbers); color_vector = [image[l[1], l[0]] for l in points_left.T]
ColorVector(img, points_left) ==
    LET rows == Transpose2xN(points_left)
    IN  [k \in 1..Len(rows) |-> PixelAt(img, rows[k][2], rows[k][1])]

\* total_colors = np.vstack((total_colors, color_vector))
AppendColors ==
    /\ pc = "append_colors"
    /\ IF \A l \in Range(Transpose2xN(cm_mask_1)) : InImage(image, l[2], l[1])
       THEN /\ total_colors' = total_colors \o ColorVector(image, cm_mask_1)
            /\ pc' = "shift"
            /\ UNCHANGED err
       ELSE /\ Raise("IndexError", "", {})
            /\ UNCHANGED total_colors
    /\ UNCHANGED <<decodable, small, i, error, image, pose_vars, feature_vars, points_3d,
                   cm_vars, pose_array, total_points>>
    /\ calls' = Append(calls, "append")
    /\ UNCHANGED <<cp_vars, pnp_vars, ply_vars, re_vars, gm_vars>>

ShiftPosesKeepingLog ==
    /\ pc = "shift"
    /\ pose_0' = pose_1
    /\ pose_1' = pose_2
    /\ i' = i + 1
    /\ pc' = IF i + 1 <= NumImages - 3 THEN "imread" ELSE "export"
    /\ UNCHANGED <<decodable, small, err, error, image, pose_2, feature_vars, points_3d, cm_vars,
                   acc_vars, calls>>
    /\ UNCHANGED <<cp_vars, pnp_vars, ply_vars, re_vars, gm_vars>>

ShiftPosesWithoutCopy ==
    /\ pc = "shift"
    /\ pose_1' = pose_2
    /\ i' = i + 1
    /\ pc' = IF i + 1 <= NumImages - 3 THEN "imread" ELSE "export"
    /\ UNCHANGED <<decodable, small, err, error, image, pose_0, pose_2, feature_vars, points_3d,
                   cm_vars, acc_vars>>
    /\ calls' = <<>>
    /\ UNCHANGED <<cp_vars, pnp_vars, ply_vars, re_vars, gm_vars>>

\* pose_0 = np.copy(pose_1); pose_1 = np.copy(pose_2); next i of
\* range(len(image_paths) - 2)
ShiftPoses ==
    /\ pc = "shift"
    /\ pose_0' = pose_1
    /\ pose_1' = pose_2
    /\ i' = i + 1
    /\ pc' = IF i + 1 <= NumImages - 3 THEN "imread" ELSE "export"
    /\ UNCHANGED <<decodable, small, err, error, image, pose_2, feature_vars, points_3d, cm_vars,
                   acc_vars>>
    /\ calls' = <<>>
    /\ UNCHANGED <<cp_vars, pnp_vars, ply_vars, re_vars, gm_vars>>

\* to_ply('./Assets', total_points, total_colors)
Export ==
    /\ pc = "export"
    /\ ply_file' = to_ply(total_points, total_colors)
    /\ ply_done' = TRUE
    /\ pc' = IF ply_file'.raised THEN "failed" ELSE "done"
    /\ err' = IF ply_file'.raised THEN [type |-> "ValueError", printed |-> "", named |-> {}] ELSE err
    /\ UNCHANGED <<decodable, small, i, error, image, pose_vars, feature_vars, points_3d, cm_vars, acc_vars>>
    /\ calls' = Append(calls, "to_ply")
    /\ UNCHANGED <<ply_args, cp_vars, pnp_vars, re_vars, gm_vars>>

InitCP ==
    /\ \E ip1 \in SeqUpTo(CPPoints, MaxLen1), ip2 \in SeqUpTo(CPPoints, MaxLen2) :
          cp_args = <<ip1, ip2, ThirdRows(Len(ip2))>>
    /\ cp_ret = NoCPResult
    /\ cp_done = FALSE
    /\ IdlePnP /\ IdlePly /\ IdleRE /\ IdleGM /\ IdleLoop

InitPnP ==
    /\ \E n \in 0..MaxPnP :
          \E o \in [1..n -> PnPObjRows], p \in [1..n -> PnPImageRows], a \in [1..n -> PnPAuxRows] :
             pnp_args = [obj_point |-> o, image_point |-> p, rot_vector |-> a,
                         solved |-> NoSolve]
    /\ pnp_ret = NoPnPResult
    /\ pnp_done = FALSE
    /\ IdleCP /\ IdlePly /\ IdleRE /\ IdleGM /\ IdleLoop

InitPly ==
    /\ \E n \in 0..MaxCloud :
          \E p \in [1..n -> PlyPoints], c \in [1..n -> PlyColors] :
             ply_args = [point_cloud |-> p, colors |-> c]
    /\ ply_done = FALSE
    /\ ply_file = NoFile
    /\ IdleCP /\ IdlePnP /\ IdleRE /\ IdleGM /\ IdleLoop

InitRE ==
    /\ \E n \in 0..MaxRE, h \in {0, 1} :
          \E o \in [1..n -> IF h = 1 THEN REObjColumns ELSE REObjRows],
             p \in [1..n -> REImageRows] :
             re_args = [obj_points |-> o,
                        image_points |-> IF h = 1 THEN TransposeNx2(p) ELSE p,
                        homogenity |-> h, image_points_calc |-> <<>>]
    /\ re_ret = [raised |-> FALSE, error |-> NoError, obj_points |-> <<>>]
    /\ re_done = FALSE
    /\ IdleCP /\ IdlePnP /\ IdlePly /\ IdleGM /\ IdleLoop

InitGM ==
    /\ IdleCP /\ IdlePnP /\ IdlePly /\ IdleRE /\ IdleLoop
    /\ \E p1 \in 0..(NumImages - 1), p2 \in 0..(NumImages - 1) :
          \E matches \in KnnMatch(Keypoints(p1), Keypoints(p2)) :
             gm_args = [path1 |-> p1, path2 |-> p2, matches |-> matches]
    /\ gm_ret = NoMatches
    /\ gm_done = FALSE

Init == IdleCP /\ IdlePnP /\ IdlePly /\ IdleRE /\ IdleGM /\ InitLoop

NextCP == CallCommonPoints
NextPnP == CallPnP
NextPly == CallToPly
NextRE == CallReprojectionError
NextGM == CallGetMatches
Next ==
    \/ ReadImage \/ MatchPrev \/ TriangulatePrev \/ MatchNext \/ ConvertPoints
    \/ TrackCommon \/ SelectTracked \/ RegisterPose \/ EvaluateRegistration
    \/ TriangulateNew \/ EvaluateNew \/ AppendPose \/ AppendPoints \/ AppendColors
    \/ ShiftPoses \/ Export

SpecCP == InitCP /\ [][NextCP]_vars
SpecPnP == InitPnP /\ [][NextPnP]_vars
SpecPly == InitPly /\ [][NextPly]_vars
SpecRE == InitRE /\ [][NextRE]_vars
SpecGM == InitGM /\ [][NextGM]_vars
Spec == Init /\ [][Next]_vars

(***************************************************************************)
(* Properties                                                              *)
(***************************************************************************)
Min(S) == CHOOSE m \in S : \A n \in S : m <= n
Abs(n) == IF n < 0 THEN 0 - n ELSE n

\* the indices 1..N outside the set idx, in increasing order
RECURSIVE IndicesOutside(_, _, _)
IndicesOutside(idx, k, N) ==
    IF k > N THEN <<>>
    ELSE (IF k \in idx THEN <<>> ELSE <<k>>) \o IndicesOutside(idx, k + 1, N)

\* C1: common_points reports a pair (i, j) only if row i of image_points_1
\* and row j of image_points_2 are the same coordinate, x and y both equal.
C1_CommonOnlyIdentical ==
    cp_done =>
        \A n \in 1..Len(cp_ret.cm_points_1) :
            cp_args[1][cp_ret.cm_points_1[n]] = cp_args[2][cp_ret.cm_points_2[n]]

\* C2 as stated: the two non-common outputs are the rows of image_points_2
\* and of image_points_3 at the indices that were not reported, in their
\* order and parallel, M minus the number of distinct reported indices of
\* them, and no coordinate reported as common is among them.
C2_NonCommonComplement ==
    cp_done =>
        LET reported == Range(cp_ret.cm_points_2)
            others   == IndicesOutside(reported, 1, Len(cp_args[2]))
        IN  /\ cp_ret.mask_array_1 = Take(cp_args[2], others)
            /\ cp_ret.mask_array_2 = Take(cp_args[3], others)
            /\ Len(cp_ret.mask_array_1) = Len(cp_args[2]) - Cardinality(reported)
            /\ Len(cp_ret.mask_array_2) = Len(cp_args[2]) - Cardinality(reported)
            /\ \A j \in reported :
                  /\ cp_args[2][j] \notin Range(cp_ret.mask_array_1)
                  /\ cp_args[3][j] \notin Range(cp_ret.mask_array_2)

\* C2 as amended: the two non-common outputs are the rows of image_points_2
\* and of image_points_3 at the indices that were not reported, in their
\* order and parallel, M minus the number of distinct reported indices of
\* them; the row at a reported index is never among them by its index.
C2_NonCommonComplementByIndex ==
    cp_done =>
        LET reported == Range(cp_ret.cm_points_2)
            others   == IndicesOutside(reported, 1, Len(cp_args[2]))
        IN  /\ cp_ret.mask_array_1 = Take(cp_args[2], others)
            /\ cp_ret.mask_array_2 = Take(cp_args[3], others)
            /\ Len(cp_ret.mask_array_1) = Len(cp_args[2]) - Cardinality(reported)
            /\ Len(cp_ret.mask_array_2) = Len(cp_args[2]) - Cardinality(reported)

\* common_points reported a row of image_points_2 whose coordinate occurs
\* again at an index it did not report, and two rows of image_points_1
\* were tracked
C2_Witness ==
    /\ cp_done
    /\ Len(cp_ret.cm_points_1) = 2
    /\ cp_ret.cm_points_1 # cp_ret.cm_points_2
    /\ \E j \in Range(cp_ret.cm_points_2) : cp_args[2][j] \in Range(cp_ret.mask_array_1)

\* C3: when image_points_1[i] occurs at several indices of image_points_2,
\* the index reported for i is the smallest index whose row is identical to
\* image_points_1[i], and exactly one index is reported for i.
C3_FirstIdenticalOccurrence ==
    cp_done =>
        /\ \A n, m \in 1..Len(cp_ret.cm_points_1) :
               cp_ret.cm_points_1[n] = cp_ret.cm_points_1[m] => n = m
        /\ \A r \in 1..Len(cp_args[1]) :
               LET same == {j \in 1..Len(cp_args[2]) : cp_args[2][j] = cp_args[1][r]}
               IN  Cardinality(same) >= 2 =>
                      \E n \in 1..Len(cp_ret.cm_points_1) :
                          /\ cp_ret.cm_points_1[n] = r
                          /\ cp_ret.cm_points_2[n] = Min(same)

\* C4: when solvePnPRansac finds no inlier set, PnP ends in a failure: it
\* returns no rotation and translation, and the loop appends no pose made
\* from them.
C4_NoPoseWithoutInliers ==
    /\ pose_2.kind # "arbitrary"
    /\ \A k \in 1..Len(pose_array) : pose_array[k].kind # "arbitrary"

\* C5: the three arrays PnP returns have one length, and row k of each is
\* the row of its input at the same index: the k-th inlier index, or k
\* itself when there is no inlier set.
C5_PnPOutputsAligned ==
    (pnp_done /\ ~pnp_ret.raised) =>
        LET at(k) == IF pnp_args.solved.found THEN pnp_args.solved.inlier[k] ELSE k
        IN  /\ Len(pnp_ret.image_point) = Len(pnp_ret.obj_point)
            /\ Len(pnp_ret.rot_vector) = Len(pnp_ret.obj_point)
            /\ \A k \in 1..Len(pnp_ret.obj_point) :
                  /\ pnp_ret.obj_point[k] = pnp_args.obj_point[at(k)]
                  /\ pnp_ret.image_point[k] = pnp_args.image_point[at(k)]
                  /\ pnp_ret.rot_vector[k] = pnp_args.rot_vector[at(k)]

\* PnP returned two of three correspondences, and their auxiliary rows differ
C5_Witness ==
    /\ pnp_done /\ pnp_args.solved.found
    /\ pnp_args.solved.inlier = <<2, 3>>
    /\ pnp_args.rot_vector[2] # pnp_args.rot_vector[3]
    /\ pnp_args.rot_vector[1] # pnp_args.rot_vector[2]

\* C6: no point with a NaN or Inf coordinate is ever appended to
\* total_points: a correspondence whose 4th homogeneous coordinate is zero
\* is dropped by triangulation.
C6_AppendsOnlyFinitePoints ==
    [][\A k \in (Len(total_points) + 1)..Len(total_points') :
          \A c \in 1..3 : IsFinite(total_points'[k][c])]_vars

\* the x coordinates to_ply filters on, for a finite cloud on the x axis
PlyScaledXs == [k \in 1..Len(ply_args.point_cloud) |-> ScaleFactor * ply_args.point_cloud[k][1][2]]

\* N times the distance of point k from the centroid, for such a cloud
PlyAxisDist(k) ==
    Abs(Len(PlyScaledXs) * PlyScaledXs[k] - SumSeq(PlyScaledXs))

PlyAxisDistSum == SumSeq([k \in 1..Len(PlyScaledXs) |-> PlyAxisDist(k)])

\* N * N * (mean(distance) + 300)
PlyThreshold == PlyAxisDistSum + DistOffset * Len(PlyScaledXs) * Len(PlyScaledXs)

PlyFiniteCloud == AllFinite(ply_args.point_cloud)

\* what to_ply writes for point k
PlyLine(k) ==
    ScalePoints(ply_args.point_cloud)[k] \o ConvertColors(ply_args.colors)[k]

PlyLinesOf(kept) ==
    Take([k \in 1..Len(ply_args.point_cloud) |-> PlyLine(k)],
         IndicesOutside((1..Len(ply_args.point_cloud)) \ kept, 1, Len(ply_args.point_cloud)))

\* C7 as stated: to_ply retains exactly the points whose distance from the
\* centroid does not exceed mean(distance) + 300; a point at exactly that
\* distance is retained.
C7_KeepsUpToBoundary ==
    (ply_done /\ PlyFiniteCloud) =>
        ply_file.lines =
            PlyLinesOf({k \in 1..Len(PlyScaledXs) :
                           Len(PlyScaledXs) * PlyAxisDist(k) <= PlyThreshold})

\* C7 as amended: to_ply retains exactly the points whose distance from the
\* centroid is less than mean(distance) + 300; a point at exactly that
\* distance is discarded.
C7_KeepsStrictlyInside ==
    (ply_done /\ PlyFiniteCloud) =>
        ply_file.lines =
            PlyLinesOf({k \in 1..Len(PlyScaledXs) :
                           Len(PlyScaledXs) * PlyAxisDist(k) < PlyThreshold})

\* to_ply ran on a cloud with a point at exactly mean(distance) + 300 and
\* points nearer than that
C7_Witness ==
    /\ ply_done /\ PlyFiniteCloud
    /\ \E k \in 1..Len(PlyScaledXs) : Len(PlyScaledXs) * PlyAxisDist(k) = PlyThreshold
    /\ \E k \in 1..Len(PlyScaledXs) : Len(PlyScaledXs) * PlyAxisDist(k) < PlyThreshold

\* C8: the vertex count of the header equals the number of vertex lines,
\* and both equal the number of points that passed the distance filter
\* (none of them when a point of the cloud is not finite).
C8_HeaderMatchesLines ==
    (ply_done /\ ~ply_file.raised) =>
        /\ ply_file.vert_num = Len(ply_file.lines)
        /\ Len(ply_file.lines) =
              IF PlyFiniteCloud
              THEN Cardinality({k \in 1..Len(PlyScaledXs) :
                                   Len(PlyScaledXs) * PlyAxisDist(k) < PlyThreshold})
              ELSE 0

\* to_ply wrote some of the points of a cloud and discarded others
C8_Witness ==
    /\ ply_done /\ ~ply_file.raised
    /\ ply_file.vert_num > 0
    /\ ply_file.vert_num < Len(ply_args.point_cloud)

\* C9: the number of accumulated points never decreases.
C9_PointCountNeverDecreases ==
    [][Len(total_points') >= Len(total_points)]_vars

\* two iterations completed and each appended points
C9_Witness ==
    /\ i >= 2 /\ pc \in {"imread", "export"}
    /\ Len(total_points) >= 3

\* C10: when an image passed to get_matches cannot be decoded, the
\* iteration is aborted with a failure that names the path of that image.
C10_DecodeFailureNamesPath ==
    (pc = "failed" /\ err.printed = "Error reading images") =>
        \E k \in err.named : ~decodable[k]

\* the distance between the projection of point k and its observation, in
\* the call of reprojection_error (a whole number for every offset drawn)
REPointDist(k) ==
    LET dx == re_args.image_points_calc[k][1] - REObserved[k][1]
        dy == re_args.image_points_calc[k][2] - REObserved[k][2]
    IN  Sqrt(dx * dx + dy * dy)

\* C11: reprojection_error returns the mean over the N >= 1 points of the
\* distance between the projected and the observed point: N times the
\* returned value, which is total_error, is the sum of the N distances.
C11_ErrorIsMeanDistance ==
    (re_done /\ ~re_ret.raised /\ IsFinite(re_ret.error.total_error)) =>
        /\ re_ret.error.len = Len(re_args.obj_points)
        /\ re_ret.error.total_error[2] =
              SumSeq([k \in 1..Len(re_args.obj_points) |-> REPointDist(k)])

\* C12: the reprojection error is advisory: for every input, an empty point
\* set among them, the evaluation raises no failure and hands back one
\* object point per input point.
C12_EvaluatorNeverRaises ==
    re_done =>
        /\ ~re_ret.raised
        /\ Len(re_ret.obj_points) = Len(re_args.obj_points)

\* the positions in the descriptor scan of the matches whose best distance
\* is less than 0.7 times the second best, in scan order
GMPassing ==
    IndicesOutside({j \in 1..Len(gm_args.matches) :
                       10 * gm_args.matches[j].distance >= 7 * gm_args.matches[j].second},
                   1, Len(gm_args.matches))

\* C13: get_matches keeps a match if and only if distance(best) < 0.7 *
\* distance(second best); its four outputs have one entry per kept match,
\* entry k of all four belongs to the k-th kept match of the descriptor
\* scan: its keypoint in A, its keypoint in B and the pixels under them.
C13_RatioTestKeepsParallelLists ==
    (gm_done /\ ~gm_ret.none) =>
        LET kp1 == Keypoints(gm_args.path1)
            kp2 == Keypoints(gm_args.path2)
        IN  /\ Len(gm_ret.a) = Len(GMPassing)
            /\ Len(gm_ret.b) = Len(GMPassing)
            /\ Len(gm_ret.colors_a) = Len(GMPassing)
            /\ Len(gm_ret.colors_b) = Len(GMPassing)
            /\ \A k \in 1..Len(GMPassing) :
                  LET m == gm_args.matches[GMPassing[k]]
                  IN  /\ gm_ret.a[k] = kp1[GMPassing[k]]
                      /\ gm_ret.b[k] = kp2[m.trainIdx]
                      /\ gm_ret.colors_a[k] =
                            PixelAt(Imread(gm_args.path1), gm_ret.a[k][2], gm_ret.a[k][1])
                      /\ gm_ret.colors_b[k] =
                            PixelAt(Imread(gm_args.path2), gm_ret.b[k][2], gm_ret.b[k][1])

\* get_matches ran on a scan whose first match lies exactly on 0.7 times the
\* second best distance and whose second match passes and is matched to a
\* keypoint at another position of the other image
C13_Witness ==
    /\ gm_done /\ ~gm_ret.none
    /\ Len(gm_args.matches) = 2
    /\ 10 * gm_args.matches[1].distance = 7 * gm_args.matches[1].second
    /\ GMPassing = <<2>>
    /\ gm_args.matches[2].trainIdx = 1
    /\ gm_args.path1 # gm_args.path2

\* C14: for the colors the loop accumulated, whole channel values in
\* 0..255, every vertex line to_ply writes carries channel values in 0..255
\* that are the accumulated channel values of its point.
C14_ColorsWrittenUnchanged ==
    (pc = "done" /\ ~ply_file.raised) =>
        LET indx == FilterIndex(ScalePoints(total_points))
        IN  \A n \in 1..Len(ply_file.lines) :
               \A c \in 1..3 :
                  /\ ply_file.lines[n][3 + c] \in 0..255
                  /\ ply_file.lines[n][3 + c] = total_colors[indx[n]][c]

\* the loop is between two iterations: before the first, after a completed
\* one, or after the last
AtBoundary == pc \in {"imread", "export", "done"}

\* the scene points whose keypoint lies at <<x, y>> in one image and under
\* the pixel <<row, col>> of the next image
SceneOf(x, y, row, col) ==
    {j \in 1..2 : \E v \in 0..(NumImages - 2) :
        /\ Keypoints(v)[j] = <<x, y>>
        /\ Keypoints(v + 1)[j] = <<col, row>>}

\* C15: at every iteration boundary total_points and total_colors have the
\* same number of rows, row k of total_colors was looked up for the
\* correspondence row k of total_points was triangulated from, and to_ply
\* accepts the two arrays.
C15_CloudAndColorsParallel ==
    AtBoundary =>
        /\ Len(total_points) = Len(total_colors)
        /\ ~to_ply(total_points, total_colors).raised
        /\ \A k \in 1..Len(total_points) :
              IsFinite(total_points[k][1]) =>
                  SceneOf(total_points[k][1][2], total_points[k][2][2],
                          total_colors[k][2], total_colors[k][3]) # {}

\* an iteration was completed and appended the finite point of the scene
\* point whose keypoint moves between the images, with its color
C15_Witness ==
    /\ pc = "imread" /\ i >= 1
    /\ Len(total_points) >= 2
    /\ \E k \in 2..Len(total_points) :
          /\ IsFinite(total_points[k][1])
          /\ <<total_points[k][1][2], total_points[k][2][2]>> # <<1, 1>>

\* the place of a function in the order FeatureMatcher, CorrespondenceTracker,
\* PoseRegistrar, Triangulator, ReprojectionEvaluator, then the appends to
\* the accumulator, then the Exporter
ComponentRank(name) ==
    CASE name = "get_matches" -> 1
      [] name = "common_points" -> 2
      [] name = "PnP" -> 3
      [] name = "triangulation" -> 4
      [] name = "reprojection_error" -> 5
      [] name = "append" -> 6
      [] name = "to_ply" -> 7

\* the calls of one iteration, in the order of the loop body
IterationCalls ==
    <<"get_matches", "triangulation", "get_matches", "common_points", "PnP",
      "reprojection_error", "triangulation", "reprojection_error",
      "append", "append", "append">>

\* to_ply is called only after the last iteration
ExportAfterLoop ==
    (\E n \in 1..Len(calls) : calls[n] = "to_ply") =>
        (calls = <<"to_ply">> /\ i = NumImages - 2)

AfterRegistration ==
    pc \in {"reproj1", "tri12", "reproj2", "append_pose", "append_points",
            "append_colors", "shift"}

\* C17: throughout iteration i pose_0 is the projection matrix of image i
\* and pose_1 that of image i+1, the pair whose matches are triangulated
\* with them; the pose registered in iteration i is that of image i+2, it is
\* appended once to pose_array, and at the start of iteration i+1 it is
\* pose_1 while the former pose_1 is pose_0.
C17_PoseChaining ==
    /\ pose_0.view = i /\ pose_1.view = i + 1
    /\ AfterRegistration => pose_2.view = i + 2
    /\ \A k \in 2..Len(pose_array) : pose_array[k].view = k
    /\ AtBoundary =>
          /\ Len(pose_array) = i + 1
          /\ i >= 1 => /\ pose_1 = pose_array[i + 1]
                       /\ pose_1 = pose_2
          /\ i >= 2 => pose_0 = pose_array[i]

\* the second iteration triangulated the pair (1, 2) with the pose of image
\* 1 and the pose the first iteration registered for image 2
C17_Witness ==
    /\ i = 1 /\ pc = "match12"
    /\ pose_0.view = 1 /\ pose_1 = pose_array[2]
    /\ pose_1.kind = "estimated"

IsPrefix(s, t) == Len(s) <= Len(t) /\ s = SubSeq(t, 1, Len(s))

\* C18: the accumulated cloud is append-only: every step leaves the rows
\* total_points and total_colors already hold in place and unchanged, as a
\* prefix of the new contents, and the call of to_ply leaves both arrays as
\* they are.
C18_AppendOnly ==
    [][/\ IsPrefix(total_points, total_points')
       /\ IsPrefix(total_colors, total_colors')
       /\ pc = "export" => UNCHANGED <<total_points, total_colors>>]_vars

\* both iterations appended to the cloud and to_ply wrote vertices of it
C18_Witness ==
    /\ pc = "done" /\ i = 2
    /\ Len(total_points) >= 3 /\ Len(total_colors) >= 3
    /\ ply_file.vert_num >= 1

\* C19: every color an iteration appends was read from the image in which
\* the coordinate used for the lookup was observed: the coordinates in
\* cm_mask_1 are positions in image i+2, so the pixel comes from image i+2.
C19_ColorFromObservedImage ==
    [][\A k \in (Len(total_colors) + 1)..Len(total_colors') :
          total_colors'[k][1] = i + 2]_vars

\* C20: an iteration is atomic for the accumulator: when a step of iteration
\* i fails, pose_array holds the poses of the i iterations completed before
\* it and no more, and total_points holds no row without its color, as at
\* the start of the iteration.
C20_IterationAtomic ==
    pc = "failed" =>
        /\ Len(pose_array) = i + 1
        /\ Len(total_points) = Len(total_colors)
====
